---- MODULE Spec2Model ----
(***************************************************************************)
(* A model of the applechess move-selection agents: depth-bounded Minimax  *)
(* (src/minmax/minmax.go), Alpha-Beta (src/alphabeta/alphabeta.go:1-199),  *)
(* the parallel-root MCTS (src/alphabeta/alphabeta.go:201-452) and the     *)
(* single-tree MCTS (src/alphabeta/alphabeta.go:454-609).                  *)
(*                                                                         *)
(* The rules engine (github.com/brighamskarda/chess) is external.  For the *)
(* depth-bounded searchers a position is a node of a finite game tree:     *)
(* kind says what IsCheckMate / IsStaleMate answer, kids are the positions *)
(* reached by the legal moves in generation order, ev is what evaluate     *)
(* returns for it, turn is the side to move.  A move is its index in the   *)
(* generation order; 0 is the null move chess.Move{}.                      *)
(***************************************************************************)
EXTENDS Integers, Sequences, FiniteSets, TLC

VARIABLES
    sPos,       \* the position handed to GetMove of Minimax and Alpha-Beta
    sDepth,     \* the Depth of both agents
    sPc,        \* "start" | "minmax" | "done"
    mmResult,   \* what minmax.search returned: [move, score]
    abResult,   \* what alphabeta.search returned: [move, score]
    gGame,      \* the game the MCTS agents and the rollout play: position id -> position
    gAgent,     \* agentColor
    gVariant,   \* "single" (alphabeta.go:454-609) | "parallel" (alphabeta.go:201-452)
    mDuration,  \* Mcts.Duration
    mNodes,     \* the search tree: path of child indices from parentNode -> node
    mUnits,     \* the iteration loops: unit -> [pc, i, n, batches, root]
    mPc,        \* GetMove of the MCTS agent: "start" | "run" | "wait" | "done"
    mRecv,      \* parallel-root GetMove: how many returnChannels it has received from
    mResult,    \* what GetMove returned
    mLast,      \* history: the last call of iterate, and the tree before it
    mAcc,       \* history: unit -> the nodes it has read (rd) and written (wr)
    rPos,       \* randomRollout: the position p
    rI,         \* randomRollout: the loop counter i
    rPc,        \* randomRollout: "loop" | "done"
    rResult,    \* randomRollout: the value returned, in halves
    hArgs,      \* main: the command line [p1, p2, o1, o2, help]
    hAgents,    \* main: agents, each [kind, option, n]
    hGame,      \* main: game, [board, turn, mate, draw]
    hPc,        \* main: "args" | "loop" | "call" | "returned" | "exited"
    hExit,      \* main: how the process exited, [outcome, code]
    hMove,      \* main: move, "valid" or "invalid" for game.Move
    cAgent,     \* GetMove: its receiver, a copy of the agent
    cPos,       \* GetMove: its parameter p, a copy of the position
    cPc,        \* GetMove: "run" | "white" | "black" | "evaluated" | "idle"
    cEval,      \* evaluate: [p, origTurn] and, as history, p before the call
    cCount,     \* GetMove: evaluations or iterations done
    aPos,       \* simulateAttacks: *p, as far as the square is concerned
    aPc,        \* simulateAttacks: "call" | "done"
    aTotal,     \* simulateAttacks: minus the lowestCost of the moves made
    aDelta      \* history: material after - material before, summed over the moves

searchVars == <<sPos, sDepth, sPc, mmResult, abResult>>

gameVars == <<gGame, gAgent, gVariant>>

mctsVars == <<mDuration, mNodes, mUnits, mPc, mRecv, mResult, mLast, mAcc>>

rolloutVars == <<rPos, rI, rPc, rResult>>

mainVars == <<hArgs, hAgents, hGame, hPc, hExit, hMove, cAgent, cPos, cPc, cEval, cCount>>

attackVars == <<aPos, aPc, aTotal, aDelta>>

vars == <<searchVars, gameVars, mctsVars, rolloutVars, mainVars, attackVars>>

\* the process has not exited
NoExit == [outcome |-> "none", code |-> 0]

\* no harness is running
NoMain ==
    /\ hArgs = <<>> /\ hAgents = <<>> /\ hGame = <<>> /\ hPc = "idle"
    /\ hExit = NoExit /\ hMove = ""
    /\ cAgent = <<>> /\ cPos = <<>> /\ cPc = "idle" /\ cEval = <<>> /\ cCount = 0

\* no simulateAttacks is running
NoAttacks == aPos = <<>> /\ aPc = "idle" /\ aTotal = 0 /\ aDelta = 0

White == "White"
Black == "Black"

Other(c) == IF c = White THEN Black ELSE White

\* chess.Move{}
NullMove == 0

\* math.MaxFloat64, the sentinel of both searchers: larger than any evaluation
MaxFloat64 == 1000000

(***************************************************************************)
(* Bounds of the game trees.  Evals are the values evaluate may return for *)
(* a position.  A width w gives, as w[d + 1], the largest number of legal  *)
(* moves of a position that is searched with depth d.  Width bounds the    *)
(* trees of SpecSearch (depths 0..2), DeepWidth those of SpecDeep          *)
(* (depth 3).                                                              *)
(***************************************************************************)
Evals == {-1, 0, 1}

Width == <<2, 3, 1>>

DeepWidth == <<2, 2, 1, 2>>

\* the trees of SpecWide (depth 2): two root moves, so that the second is
\* searched with a narrowed window
WideWidth == <<1, 3, 2>>

MaxDepth == Len(Width) - 1

WideDepth == Len(WideWidth) - 1

DeepDepth == Len(DeepWidth) - 1

MatePos(t) == [kind |-> "mate", turn |-> t, ev |-> 0, kids |-> <<>>]

StalePos(t) == [kind |-> "stale", turn |-> t, ev |-> 0, kids |-> <<>>]

\* the positions one ply below a depth-0 node: only evaluate looks at them
EvalPos(t) == {[kind |-> "play", turn |-> t, ev |-> v, kids |-> <<>>] : v \in Evals}

RECURSIVE PosAt(_, _, _)
\* the non-terminal positions with side t to move that are searched with depth d
PosAt(w, d, t) ==
    LET below == IF d = 0
                 THEN EvalPos(Other(t))
                 ELSE PosAt(w, d - 1, Other(t)) \cup {MatePos(Other(t)), StalePos(Other(t))}
    IN  {[kind |-> "play", turn |-> t, ev |-> 0, kids |-> ks] :
            ks \in UNION {[1..n -> below] : n \in 1..w[d + 1]}}

(***************************************************************************)
(* The rules engine, as the searchers use it.                              *)
(***************************************************************************)
GenerateLegalMoves(p) == [i \in 1..Len(p.kids) |-> i]

\* newPos := *p; newPos.Move(move)
ApplyMove(p, move) == p.kids[move]

IsCheckMate(p) == p.kind = "mate"

IsStaleMate(p) == p.kind = "stale"

evaluate(p) == p.ev

Ret(move, score) == [move |-> move, score |-> score]

(***************************************************************************)
(* Minimax: src/minmax/minmax.go (the same code as                         *)
(* src/alphabeta/alphabeta.go:623-708).                                    *)
(***************************************************************************)
RECURSIVE MinmaxSearch(_, _)
RECURSIVE MinmaxMin(_, _)
RECURSIVE MinmaxMax(_, _)
RECURSIVE MinmaxMinLeaf(_, _, _, _)
RECURSIVE MinmaxMaxLeaf(_, _, _, _)
RECURSIVE MinmaxMinLoop(_, _, _, _, _)
RECURSIVE MinmaxMaxLoop(_, _, _, _, _)

\* the depth == 0 loop of min, from the i-th legal move on
MinmaxMinLeaf(p, i, lowestScore, bestMove) ==
    IF i > Len(GenerateLegalMoves(p))
    THEN Ret(bestMove, lowestScore)
    ELSE LET score == evaluate(ApplyMove(p, i))
         IN  IF score < lowestScore
             THEN MinmaxMinLeaf(p, i + 1, score, i)
             ELSE MinmaxMinLeaf(p, i + 1, lowestScore, bestMove)

\* the depth > 0 loop of min, from the i-th legal move on
MinmaxMinLoop(p, depth, i, lowestScore, bestMove) ==
    IF i > Len(GenerateLegalMoves(p))
    THEN Ret(bestMove, lowestScore)
    ELSE LET newPos == ApplyMove(p, i)
         IN  IF IsCheckMate(newPos)
             THEN Ret(i, -MaxFloat64)
             ELSE IF IsStaleMate(newPos) /\ lowestScore > 0
             THEN MinmaxMinLoop(p, depth, i + 1, 0, i)
             ELSE LET score == MinmaxSearch(newPos, depth - 1).score
                  IN  IF score < lowestScore
                      THEN MinmaxMinLoop(p, depth, i + 1, score, i)
                      ELSE MinmaxMinLoop(p, depth, i + 1, lowestScore, bestMove)

MinmaxMin(p, depth) ==
    IF depth = 0
    THEN MinmaxMinLeaf(p, 1, MaxFloat64, NullMove)
    ELSE MinmaxMinLoop(p, depth, 1, MaxFloat64, NullMove)

\* the depth == 0 loop of max, from the i-th legal move on
MinmaxMaxLeaf(p, i, highestScore, bestMove) ==
    IF i > Len(GenerateLegalMoves(p))
    THEN Ret(bestMove, highestScore)
    ELSE LET score == evaluate(ApplyMove(p, i))
         IN  IF score > highestScore
             THEN MinmaxMaxLeaf(p, i + 1, score, i)
             ELSE MinmaxMaxLeaf(p, i + 1, highestScore, bestMove)

\* the depth > 0 loop of max, from the i-th legal move on
MinmaxMaxLoop(p, depth, i, highestScore, bestMove) ==
    IF i > Len(GenerateLegalMoves(p))
    THEN Ret(bestMove, highestScore)
    ELSE LET newPos == ApplyMove(p, i)
         IN  IF IsCheckMate(newPos)
             THEN Ret(i, MaxFloat64)
             ELSE IF IsStaleMate(newPos) /\ highestScore < 0
             THEN MinmaxMaxLoop(p, depth, i + 1, 0, i)
             ELSE LET score == MinmaxSearch(newPos, depth - 1).score
                  IN  IF score > highestScore
                      THEN MinmaxMaxLoop(p, depth, i + 1, score, i)
                      ELSE MinmaxMaxLoop(p, depth, i + 1, highestScore, bestMove)

MinmaxMax(p, depth) ==
    IF depth = 0
    THEN MinmaxMaxLeaf(p, 1, -MaxFloat64, NullMove)
    ELSE MinmaxMaxLoop(p, depth, 1, -MaxFloat64, NullMove)

MinmaxSearch(p, depth) ==
    IF p.turn = White THEN MinmaxMax(p, depth)
    ELSE IF p.turn = Black THEN MinmaxMin(p, depth)
    ELSE Ret(NullMove, 0)

\* Minmax.GetMove returns MinmaxSearch(p, mm.Depth).move

(***************************************************************************)
(* Alpha-Beta: src/alphabeta/alphabeta.go:14-117.                          *)
(***************************************************************************)
RECURSIVE ABSearch(_, _, _, _)
RECURSIVE ABMin(_, _, _, _)
RECURSIVE ABMax(_, _, _, _)
RECURSIVE ABMinLeaf(_, _, _, _, _)
RECURSIVE ABMaxLeaf(_, _, _, _, _)
RECURSIVE ABMinLoop(_, _, _, _, _, _, _)
RECURSIVE ABMaxLoop(_, _, _, _, _, _, _)

\* the cut-off tests of min and of max
ABMinCutLe(lowestScore, alpha) == lowestScore <= alpha

ABMinCut(lowestScore, alpha) == lowestScore < alpha

ABMaxCutGe(highestScore, beta) == highestScore >= beta

ABMaxCut(highestScore, beta) == highestScore > beta

\* the depth == 0 loop of min, from the i-th legal move on
ABMinLeaf(p, i, lowestScore, bestMove, alpha) ==
    IF i > Len(GenerateLegalMoves(p))
    THEN Ret(bestMove, lowestScore)
    ELSE LET score == evaluate(ApplyMove(p, i))
             low   == IF score < lowestScore THEN score ELSE lowestScore
             best  == IF score < lowestScore THEN i ELSE bestMove
         IN  IF ABMinCut(low, alpha)
             THEN Ret(best, low)
             ELSE ABMinLeaf(p, i + 1, low, best, alpha)

\* the depth > 0 loop of min, from the i-th legal move on
ABMinLoop(p, depth, i, lowestScore, bestMove, alpha, beta) ==
    IF i > Len(GenerateLegalMoves(p))
    THEN Ret(bestMove, lowestScore)
    ELSE LET newPos == ApplyMove(p, i)
         IN  IF IsCheckMate(newPos)
             THEN Ret(i, -MaxFloat64)
             ELSE IF IsStaleMate(newPos) /\ lowestScore > 0
             THEN ABMinLoop(p, depth, i + 1, 0, i, alpha, beta)
             ELSE LET score == ABSearch(newPos, depth - 1, alpha, beta).score
                      low   == IF score < lowestScore THEN score ELSE lowestScore
                      best  == IF score < lowestScore THEN i ELSE bestMove
                  IN  IF ABMinCut(low, alpha)
                      THEN Ret(best, low)
                      ELSE ABMinLoop(p, depth, i + 1, low, best, alpha,
                                     IF low < beta THEN low ELSE beta)

ABMin(p, depth, alpha, beta) ==
    IF depth = 0
    THEN ABMinLeaf(p, 1, MaxFloat64, NullMove, alpha)
    ELSE ABMinLoop(p, depth, 1, MaxFloat64, NullMove, alpha, beta)

\* the depth == 0 loop of max, from the i-th legal move on
ABMaxLeaf(p, i, highestScore, bestMove, beta) ==
    IF i > Len(GenerateLegalMoves(p))
    THEN Ret(bestMove, highestScore)
    ELSE LET score == evaluate(ApplyMove(p, i))
             high  == IF score > highestScore THEN score ELSE highestScore
             best  == IF score > highestScore THEN i ELSE bestMove
         IN  IF ABMaxCut(high, beta)
             THEN Ret(best, high)
             ELSE ABMaxLeaf(p, i + 1, high, best, beta)

\* the depth > 0 loop of max, from the i-th legal move on
ABMaxLoop(p, depth, i, highestScore, bestMove, alpha, beta) ==
    IF i > Len(GenerateLegalMoves(p))
    THEN Ret(bestMove, highestScore)
    ELSE LET newPos == ApplyMove(p, i)
         IN  IF IsCheckMate(newPos)
             THEN Ret(i, MaxFloat64)
             ELSE IF IsStaleMate(newPos) /\ highestScore < 0
             THEN ABMaxLoop(p, depth, i + 1, 0, i, alpha, beta)
             ELSE LET score == ABSearch(newPos, depth - 1, alpha, beta).score
                      high  == IF score > highestScore THEN score ELSE highestScore
                      best  == IF score > highestScore THEN i ELSE bestMove
                  IN  IF ABMaxCut(high, beta)
                      THEN Ret(best, high)
                      ELSE ABMaxLoop(p, depth, i + 1, high, best,
                                     IF high > alpha THEN high ELSE alpha, beta)

ABMax(p, depth, alpha, beta) ==
    IF depth = 0
    THEN ABMaxLeaf(p, 1, -MaxFloat64, NullMove, beta)
    ELSE ABMaxLoop(p, depth, 1, -MaxFloat64, NullMove, alpha, beta)

ABSearch(p, depth, alpha, beta) ==
    IF p.turn = White THEN ABMax(p, depth, alpha, beta)
    ELSE IF p.turn = Black THEN ABMin(p, depth, alpha, beta)
    ELSE Ret(NullMove, 0)

(***************************************************************************)
(* The positions the two searchers evaluate (evaluate(&newPos)) or search  *)
(* (search(newPos, depth-1, ...)), each named by the moves that lead to it *)
(* from the position GetMove was given.                                    *)
(***************************************************************************)
\* lowestScore := math.MaxFloat64 in min, highestScore := -math.MaxFloat64 in max
StartScore(p) == IF p.turn = White THEN -MaxFloat64 ELSE MaxFloat64

RECURSIVE MinmaxVisits(_, _, _, _, _)
\* the positions the loop of min or max of Minimax visits from the i-th legal
\* move on, with bestScore its lowestScore or highestScore
MinmaxVisits(p, depth, i, bestScore, path) ==
    IF i > Len(GenerateLegalMoves(p)) THEN {}
    ELSE LET newPos == ApplyMove(p, i)
             here   == Append(path, i)
             Better(score) == IF p.turn = White THEN score > bestScore
                                                ELSE score < bestScore
             Keep(score)   == IF Better(score) THEN score ELSE bestScore
         IN  IF depth = 0
             THEN {here} \cup MinmaxVisits(p, depth, i + 1, Keep(evaluate(newPos)), path)
             ELSE IF IsCheckMate(newPos) THEN {}
             ELSE IF IsStaleMate(newPos) /\ Better(0)
             THEN MinmaxVisits(p, depth, i + 1, 0, path)
             ELSE {here}
                  \cup MinmaxVisits(newPos, depth - 1, 1, StartScore(newPos), here)
                  \cup MinmaxVisits(p, depth, i + 1,
                                    Keep(MinmaxSearch(newPos, depth - 1).score), path)

\* the positions search(p, mm.Depth) visits, p itself included
MinmaxVisited(p, depth) == {<<>>} \cup MinmaxVisits(p, depth, 1, StartScore(p), <<>>)

RECURSIVE ABVisits(_, _, _, _, _, _, _)
\* the positions the loop of min or max of Alpha-Beta visits from the i-th
\* legal move on, with bestScore its lowestScore or highestScore
ABVisits(p, depth, i, bestScore, alpha, beta, path) ==
    IF i > Len(GenerateLegalMoves(p)) THEN {}
    ELSE LET newPos == ApplyMove(p, i)
             here   == Append(path, i)
             Better(score) == IF p.turn = White THEN score > bestScore
                                                ELSE score < bestScore
             Keep(score)   == IF Better(score) THEN score ELSE bestScore
             Cut(score)    == IF p.turn = White THEN ABMaxCut(Keep(score), beta)
                                                ELSE ABMinCut(Keep(score), alpha)
             Alpha(score)  == IF p.turn = White /\ Keep(score) > alpha
                              THEN Keep(score) ELSE alpha
             Beta(score)   == IF p.turn = Black /\ Keep(score) < beta
                              THEN Keep(score) ELSE beta
         IN  IF depth = 0
             THEN {here}
                  \cup IF Cut(evaluate(newPos)) THEN {}
                       ELSE ABVisits(p, depth, i + 1, Keep(evaluate(newPos)),
                                     alpha, beta, path)
             ELSE IF IsCheckMate(newPos) THEN {}
             ELSE IF IsStaleMate(newPos) /\ Better(0)
             THEN ABVisits(p, depth, i + 1, 0, alpha, beta, path)
             ELSE LET score == ABSearch(newPos, depth - 1, alpha, beta).score
                  IN  {here}
                      \cup ABVisits(newPos, depth - 1, 1, StartScore(newPos),
                                    alpha, beta, here)
                      \cup IF Cut(score) THEN {}
                           ELSE ABVisits(p, depth, i + 1, Keep(score),
                                         Alpha(score), Beta(score), path)

\* the positions search(p, ab.Depth, -math.MaxFloat64, math.MaxFloat64) visits
ABVisited(p, depth) ==
    {<<>>} \cup ABVisits(p, depth, 1, StartScore(p), -MaxFloat64, MaxFloat64, <<>>)

RECURSIVE PosAtPath(_, _)
\* the position the moves of path lead to from p
PosAtPath(p, path) ==
    IF path = <<>> THEN p ELSE PosAtPath(ApplyMove(p, Head(path)), Tail(path))

\* the positions search of Minimax is called on
MinmaxCalled(p, depth) == {path \in MinmaxVisited(p, depth) : Len(path) <= depth}

RECURSIVE ABCalls(_, _, _, _, _, _, _)
\* the calls search(newPos, depth-1, alpha, beta) the loop of min or max of
\* Alpha-Beta makes from the i-th legal move on, and the calls these make
ABCalls(p, depth, i, bestScore, alpha, beta, path) ==
    IF depth = 0 \/ i > Len(GenerateLegalMoves(p)) THEN {}
    ELSE LET newPos == ApplyMove(p, i)
             here   == Append(path, i)
             Better(score) == IF p.turn = White THEN score > bestScore
                                                ELSE score < bestScore
             Keep(score)   == IF Better(score) THEN score ELSE bestScore
             Cut(score)    == IF p.turn = White THEN ABMaxCut(Keep(score), beta)
                                                ELSE ABMinCut(Keep(score), alpha)
             Alpha(score)  == IF p.turn = White /\ Keep(score) > alpha
                              THEN Keep(score) ELSE alpha
             Beta(score)   == IF p.turn = Black /\ Keep(score) < beta
                              THEN Keep(score) ELSE beta
         IN  IF IsCheckMate(newPos) THEN {}
             ELSE IF IsStaleMate(newPos) /\ Better(0)
             THEN ABCalls(p, depth, i + 1, 0, alpha, beta, path)
             ELSE LET score == ABSearch(newPos, depth - 1, alpha, beta).score
                  IN  {[path |-> here, depth |-> depth - 1, alpha |-> alpha, beta |-> beta]}
                      \cup ABCalls(newPos, depth - 1, 1, StartScore(newPos),
                                   alpha, beta, here)
                      \cup IF Cut(score) THEN {}
                           ELSE ABCalls(p, depth, i + 1, Keep(score),
                                        Alpha(score), Beta(score), path)

\* the calls of search that AlphaBeta.GetMove causes, its own included
ABCalled(p, depth) ==
    {[path |-> <<>>, depth |-> depth, alpha |-> -MaxFloat64, beta |-> MaxFloat64]}
    \cup ABCalls(p, depth, 1, StartScore(p), -MaxFloat64, MaxFloat64, <<>>)

(***************************************************************************)
(* The two agents asked for a move on the same position with the same      *)
(* depth.                                                                  *)
(***************************************************************************)
NoResult == Ret(NullMove, 0)

\* no MCTS agent and no rollout is running
NoMcts ==
    /\ gGame = <<>> /\ gAgent = White /\ gVariant = "none"
    /\ mDuration = 0 /\ mNodes = <<>> /\ mUnits = <<>> /\ mPc = "idle"
    /\ mRecv = 0 /\ mResult = <<>> /\ mLast = <<>> /\ mAcc = <<>>
    /\ rPos = "" /\ rI = 0 /\ rPc = "idle" /\ rResult = 0

SearchInit ==
    /\ sDepth \in 0..MaxDepth
    /\ sPos \in PosAt(Width, sDepth, White) \cup PosAt(Width, sDepth, Black)
    /\ sPc = "start"
    /\ mmResult = NoResult
    /\ abResult = NoResult
    /\ NoMcts /\ NoMain /\ NoAttacks

\* the same two agents on the deeper, narrower trees
DeepInit ==
    /\ sDepth = DeepDepth
    /\ sPos \in PosAt(DeepWidth, sDepth, White) \cup PosAt(DeepWidth, sDepth, Black)
    /\ sPc = "start"
    /\ mmResult = NoResult
    /\ abResult = NoResult
    /\ NoMcts /\ NoMain /\ NoAttacks

\* the same two agents on the trees with two root moves
WideInit ==
    /\ sDepth = WideDepth
    /\ sPos \in PosAt(WideWidth, sDepth, White) \cup PosAt(WideWidth, sDepth, Black)
    /\ sPc = "start"
    /\ mmResult = NoResult
    /\ abResult = NoResult
    /\ NoMcts /\ NoMain /\ NoAttacks

\* Minmax.GetMove: search(p, mm.Depth)
MinmaxGetMove ==
    /\ sPc = "start"
    /\ mmResult' = MinmaxSearch(sPos, sDepth)
    /\ sPc' = "minmax"
    /\ UNCHANGED <<sPos, sDepth, abResult, gameVars, mainVars, attackVars, mctsVars, rolloutVars>>

\* AlphaBeta.GetMove: search(p, ab.Depth, -math.MaxFloat64, math.MaxFloat64)
AlphaBetaGetMove ==
    /\ sPc = "minmax"
    /\ abResult' = ABSearch(sPos, sDepth, -MaxFloat64, MaxFloat64)
    /\ sPc' = "done"
    /\ UNCHANGED <<sPos, sDepth, mmResult, gameVars, mainVars, attackVars, mctsVars, rolloutVars>>

SearchNext == MinmaxGetMove \/ AlphaBetaGetMove

SpecSearch == SearchInit /\ [][SearchNext]_vars

SpecDeep == DeepInit /\ [][SearchNext]_vars

SpecWide == WideInit /\ [][SearchNext]_vars

(***************************************************************************)
(* The MCTS agents: parallel-root (src/alphabeta/alphabeta.go:201-452) and *)
(* single-tree (src/alphabeta/alphabeta.go:454-609).                       *)
(*                                                                         *)
(* The game they play is a finite graph of positions: PW and PB are the    *)
(* positions with legal moves (White, Black to move), MW, MB are the       *)
(* checkmates and SW, SB the stalemates with that side to move.  A move of *)
(* an MCTS agent is <<id, i>>, the i-th legal move of position id; <<>> is *)
(* chess.Move{}.  A chess.Position held by a node is the sequence of the   *)
(* moves that were applied, in order, to the position GetMove was given.   *)
(* Every position of a game has the same board: no move of these games     *)
(* captures or promotes.  Results and rewards (0, 0.5, 1) are counted in   *)
(* halves, piece values in tenths.                                         *)
(***************************************************************************)
\* a rollout worth two wins, in halves
WinTwice == 2 + 2

Loss == 0

Draw == 1

Win == 2

\* chess.Move{}
NoMove == <<>>

RootId == "PW"

Piece(t, c) == [type |-> t, color |-> c]

\* the squares that carry a king, and an empty square
Kings == <<Piece("King", White), Piece("King", Black), Piece("NoPiece", "NoColor")>>

(***************************************************************************)
(* Bounds of the games.  Boards are the boards of the rollouts of          *)
(* SpecRollout, TreeBoards those of the games searched in SpecMcts.  The   *)
(* widths are the numbers of legal moves of PW (per specification) and of  *)
(* PB.  BatchSize stands for iterationsBetweenTimeChecks (100 in the       *)
(* source): SingleWidths reaches past it as the legal moves of a chess     *)
(* position reach past 100 (up to 218).  ParallelWidths stops at 2: only   *)
(* from the third child on does makeParentNode hand a unit a position in   *)
(* which a move was applied that is not legal there.  MaxBatches caps the  *)
(* batches of one GetMove: past it only the first time check of a loop     *)
(* succeeds.                                                               *)
(***************************************************************************)
Boards ==
    {Kings,
     Kings \o <<Piece("Queen", White)>>,
     Kings \o <<Piece("Queen", Black)>>,
     Kings \o <<Piece("Rook", White), Piece("Knight", White)>>,
     Kings \o <<Piece("Rook", Black), Piece("Bishop", Black)>>,
     Kings \o <<Piece("Queen", White), Piece("Pawn", White)>>,
     Kings \o <<Piece("Queen", Black), Piece("Pawn", Black)>>}

TreeBoards == {Kings \o <<Piece("Queen", White), Piece("Pawn", White)>>}

SingleWidths == {1, 2, 3}

ParallelWidths == {1, 2}

RolloutWidths == {1, 2}

BlackWidths == {1, 2}

Durations == {0, 1}

BatchSize == 2

MaxBatches == 2

KidSeqs(ids, widths) == UNION {[1..n -> ids] : n \in widths}

MakeGame(kw, kb, b) ==
    [id \in {"PW", "PB", "MW", "MB", "SW", "SB"} |->
        [kind  |-> IF id \in {"PW", "PB"} THEN "play"
                   ELSE IF id \in {"MW", "MB"} THEN "mate" ELSE "stale",
         turn  |-> IF id \in {"PW", "MW", "SW"} THEN White ELSE Black,
         board |-> b,
         kids  |-> IF id = "PW" THEN kw ELSE IF id = "PB" THEN kb ELSE <<>>]]

Games(widths, boards) ==
    {MakeGame(kw, kb, b) : kw \in KidSeqs({"PB", "MB", "SB"}, widths),
                           kb \in KidSeqs({"PW", "MW", "SW"}, BlackWidths),
                           b \in boards}

\* p.Move(mv) on the position id.  What the engine does with a move that is
\* not legal in p is not known: "??" is no position of the game.
PositionMove(id, mv) ==
    IF id \in DOMAIN gGame /\ mv[1] = id /\ mv[2] \in 1..Len(gGame[id].kids)
    THEN gGame[id].kids[mv[2]]
    ELSE "??"

RECURSIVE Moved(_, _)
\* the position id after the moves h, applied in order
Moved(id, h) == IF h = <<>> THEN id ELSE Moved(PositionMove(id, Head(h)), Tail(h))

\* the chess.Position a node holds as pos
PosOf(h) == gGame[Moved(RootId, h)]

(***************************************************************************)
(* Rollout: randomRollout, determineReward, getPositionValue.              *)
(***************************************************************************)
RolloutLengthParallel == 20

RolloutLengthSingle == 50

randomRolloutLength ==
    IF gVariant = "parallel" THEN RolloutLengthParallel ELSE RolloutLengthSingle

limitForWin == 80

PieceValue(piece) ==
    LET val == CASE piece.type = "Pawn" -> 10
                 [] piece.type = "Rook" -> 50
                 [] piece.type = "Knight" -> 29
                 [] piece.type = "Bishop" -> 30
                 [] piece.type = "Queen" -> 80
                 [] piece.type = "King" -> 100000
                 [] OTHER -> 0
    IN  IF piece.color = White THEN val
        ELSE IF piece.color = Black THEN -val
        ELSE 0

RECURSIVE SumBoard(_, _, _)
\* the loop of getPositionValue from the i-th square on
SumBoard(board, i, totalValue) ==
    IF i > Len(board) THEN totalValue
    ELSE SumBoard(board, i + 1, totalValue + PieceValue(board[i]))

getPositionValue(p) == SumBoard(p.board, 1, 0)

AboveLimitGe(positionValue) == positionValue >= limitForWin

AboveLimit(positionValue) == positionValue > limitForWin

BelowLimit(positionValue) == positionValue < -limitForWin

determineReward(p, agentColor) ==
    LET positionValue == getPositionValue(p)
    IN  IF agentColor = White
        THEN IF AboveLimit(positionValue) THEN Win
             ELSE IF BelowLimit(positionValue) THEN Loss
             ELSE Draw
        ELSE IF agentColor = Black
        THEN IF AboveLimit(positionValue) THEN Loss
             ELSE IF BelowLimit(positionValue) THEN Win
             ELSE Draw
        ELSE Draw

\* the material balance itself returned at the ply cap
CapRewardMaterial(p, agentColor) == getPositionValue(p)

\* what randomRollout returns after the loop
CapReward(p, agentColor) ==
    IF gVariant = "parallel" THEN determineReward(p, agentColor) ELSE Draw

RECURSIVE RolloutFrom(_, _, _)
\* the values randomRollout can return when, after i plies, rand.IntN has led
\* it to one of the positions S
RolloutFrom(S, i, agentColor) ==
    IF i >= randomRolloutLength
    THEN {CapReward(gGame[id], agentColor) : id \in S}
    ELSE LET mates  == {id \in S : IsCheckMate(gGame[id])}
             stuck  == {id \in S \ mates : Len(GenerateLegalMoves(gGame[id])) = 0}
             next   == UNION {{PositionMove(id, <<id, m>>) : m \in 1..Len(gGame[id].kids)} :
                                 id \in S \ (mates \cup stuck)}
         IN  {IF gGame[id].turn # agentColor THEN Win ELSE Loss : id \in mates}
             \cup (IF stuck # {} THEN {Draw} ELSE {})
             \cup UNION {RolloutFrom(T, i + 1, agentColor) : T \in {next} \ {{}}}

randomRollout(id, agentColor) == RolloutFrom({id}, 0, agentColor)

(***************************************************************************)
(* The tree.  A node is [w, n, mov, pos, kids]: kids is len(children), the *)
(* i-th child of the node at path q is the node at Append(q, i).           *)
(***************************************************************************)
NewNode(mov, pos, kids) == [w |-> 0, n |-> 0, mov |-> mov, pos |-> pos, kids |-> kids]

\* the parentNode of the single-tree GetMove
SingleParentNode == (<<>> :> NewNode(NoMove, <<>>, 0))

\* makeParentNode: every p.Move(move) of the loop acts on p, which the root
\* holds by reference, and each newPos is the copy of p taken before it
makeParentNode ==
    LET legalMoves == GenerateLegalMoves(gGame[RootId])
        moves == [i \in 1..Len(legalMoves) |-> <<RootId, legalMoves[i]>>]
    IN  (<<>> :> NewNode(NoMove, moves, Len(moves)))
        @@ [c \in {<<i>> : i \in 1..Len(moves)} |->
                NewNode(moves[c[1]], SubSeq(moves, 1, c[1] - 1), 0)]

fillInChildren(nodes, q) ==
    LET id == Moved(RootId, nodes[q].pos)
        legalMoves == GenerateLegalMoves(gGame[id])
    IN  [c \in {Append(q, i) : i \in 1..Len(legalMoves)} |->
            LET move == <<id, legalMoves[c[Len(c)]]>>
            IN  NewNode(move, Append(nodes[q].pos, move), 0)]
        @@ [nodes EXCEPT ![q].kids = Len(legalMoves)]

\* c * sqrt(ln(N) / n), times 10^8 and rounded, as SqrtTwoLnOver[N][n]
SqrtTwoLnOver ==
    <<
      <<0, 0, 0, 0, 0,
        0, 0, 0, 0, 0,
        0, 0, 0, 0, 0,
        0, 0, 0, 0, 0>>,
      <<117741002, 83255461, 67977799, 58870501, 52655377,
        48067563, 44501916, 41627731, 39247001, 37232974,
        35500248, 33988900, 32655479, 31467606, 30400596,
        29435251, 28556388, 27751820, 27011638, 26327688>>,
      <<148230381, 104814707, 85580850, 74115190, 66290642,
        60514800, 56025818, 52407354, 49410127, 46874562,
        44693141, 42790425, 41111711, 39616236, 38272920,
        37057595, 35951148, 34938236, 34006382, 33145321>>,
      <<166510922, 117741002, 96135126, 83255461, 74465948,
        67977799, 62935213, 58870501, 55503641, 52655377,
        50204932, 48067563, 46181821, 44501916, 42992935,
        41627731, 40384831, 39247001, 38200225, 37232974>>,
      <<179412258, 126863624, 103583715, 89706129, 80235601,
        73244748, 67811459, 63431812, 59804086, 56735137,
        54094831, 51791858, 49760007, 47949943, 46324046,
        44853064, 43513864, 42287875, 41159995, 40117800>>,
      <<189301847, 133856620, 109293472, 94650924, 84658360,
        77282156, 71549373, 66928310, 63100616, 59862500,
        57076655, 54646736, 52502886, 50593047, 48877527,
        47325462, 45912442, 44618873, 43428822, 42329180>>,
      <<197276970, 139495883, 113897912, 98638485, 88224943,
        80537986, 74563686, 69747942, 65758990, 62384456,
        59481245, 56948956, 54714787, 52724488, 50936695,
        49319243, 47846693, 46498628, 45258441, 44112472>>,
      <<203933398, 144202689, 117741002, 101966699, 91201788,
        83255461, 77079579, 72101344, 67977799, 64489403,
        61488233, 58870501, 56560948, 54503493, 52655377,
        50983350, 49461114, 48067563, 46785530, 45600894>>,
      <<209629415, 148230381, 121029599, 104814707, 93749124,
        85580850, 79232471, 74115190, 69876472, 66290642,
        63205647, 60514800, 58140739, 56025818, 54126082,
        52407354, 50842601, 49410127, 48092286, 46874562>>,
      <<214596603, 151742713, 123897406, 107298301, 95970518,
        87608696, 81109892, 75871356, 71532201, 67861404,
        64703310, 61948703, 59518389, 57353355, 55408605,
        53649151, 52047321, 50580904, 49231837, 47985259>>
    >>

\* w/n + c*sqrt(ln(mcts.n)/n), times 10^8: on the visit counts and iteration
\* counts of the table it orders the nodes as the float64 formula does
calcUCB(nd, N) == (nd.w * 50000000) \div nd.n + SqrtTwoLnOver[N][nd.n]

\* ucb >= maxUCB in place of the comparison of selectNode
UcbAboveOrEqual(ucb, maxUCB) == ucb >= maxUCB

\* if ucb > maxUCB
UcbAbove(ucb, maxUCB) == ucb > maxUCB

RECURSIVE selectLoop(_, _, _, _, _, _)
\* the second loop of selectNode from the i-th child on.  With mcts.n = 0 the
\* UCB is NaN, which is greater than nothing.
selectLoop(nodes, q, N, i, maxUCB, bestChild) ==
    IF i > nodes[q].kids THEN bestChild
    ELSE IF N >= 1 /\ UcbAbove(calcUCB(nodes[Append(q, i)], N), maxUCB)
    THEN selectLoop(nodes, q, N, i + 1, calcUCB(nodes[Append(q, i)], N), Append(q, i))
    ELSE selectLoop(nodes, q, N, i + 1, maxUCB, bestChild)

selectNode(nodes, q, N) ==
    LET unvisited == {i \in 1..nodes[q].kids : nodes[Append(q, i)].n = 0}
    IN  IF unvisited # {}
        THEN Append(q, CHOOSE i \in unvisited : \A j \in unvisited : i <= j)
        ELSE selectLoop(nodes, q, N, 1, -MaxFloat64, Append(q, 1))

RECURSIVE iterate(_, _, _)
\* iterate on the node at q with mcts.n = N: the outcomes it can have, each the
\* tree it leaves, the result it returns and the nodes it selected on the way.
\* filled is the tree after `if len(n.children) == 0 { fillInChildren(n) }`.
iterate(nodes, q, N) ==
    LET id == Moved(RootId, nodes[q].pos)
        p  == gGame[id]
    IN  IF IsCheckMate(p) /\ p.turn # gAgent
        THEN {[nodes  |-> [nodes EXCEPT ![q].n = @ + 1, ![q].w = @ + Win],
               result |-> Win, path |-> <<>>]}
        ELSE IF IsStaleMate(p) \/ IsCheckMate(p)
        THEN {[nodes  |-> [nodes EXCEPT ![q].n = @ + 1],
               result |-> Loss, path |-> <<>>]}
        ELSE UNION {UNION {
                {[nodes  |-> [o.nodes EXCEPT ![selectedNode].n = @ + 1,
                                             ![selectedNode].w = @ + o.result],
                  result |-> o.result,
                  path   |-> <<selectedNode>> \o o.path] :
                    o \in IF filled[selectedNode].n = 0
                          THEN {[nodes |-> filled, result |-> r, path |-> <<>>] :
                                   r \in randomRollout(id, gAgent)}
                          ELSE iterate(filled, selectedNode, N)} :
                selectedNode \in {selectNode(filled, q, N)}} :
                filled \in {IF nodes[q].kids = 0 THEN fillInChildren(nodes, q) ELSE nodes}}

\* the index of n.children[0] in a node without children
Panic == <<"panic">>

\* score >= bestMoveScore in place of the comparison of bestMove
ScoreAboveOrEqual(child, best) ==
    child.n > 0 /\ child.w * best.n >= best.w * child.n

\* if score > bestMoveScore, with score = child.w / child.n and bestMoveScore =
\* best.w / best.n
ScoreAbove(child, best) ==
    child.n > 0 /\ child.w * best.n > best.w * child.n

RECURSIVE bestLoop(_, _, _, _)
\* the loop of bestMove from the i-th child on; the best score so far is
\* best.w / best.n, and 0/0 is NaN, which is greater than nothing
bestLoop(nodes, i, best, bestMove) ==
    IF i > nodes[<<>>].kids THEN bestMove
    ELSE LET child == nodes[<<i>>]
         IN  IF ScoreAbove(child, best)
             THEN bestLoop(nodes, i + 1, [w |-> child.w, n |-> child.n], child.mov)
             ELSE bestLoop(nodes, i + 1, best, bestMove)

bestMove(nodes) ==
    IF nodes[<<>>].kids = 0 THEN Panic
    ELSE bestLoop(nodes, 1, [w |-> -MaxFloat64, n |-> 1], nodes[<<1>>].mov)

(***************************************************************************)
(* GetMove of the two MCTS agents on a position with White to move.  The   *)
(* loop `for time.Now()... < Duration*1000` is entered the first time when *)
(* Duration >= 1 and left the first time when Duration = 0; after a batch  *)
(* either can happen.  Unit 0 is the loop of the single-tree GetMove, unit *)
(* i >= 1 the goroutine concurrentIterate of the i-th child.               *)
(***************************************************************************)
NoSearch ==
    /\ sPos = <<>> /\ sDepth = 0 /\ sPc = "idle"
    /\ mmResult = NoResult /\ abResult = NoResult

NoLast == [valid |-> FALSE, unit |-> 0, path |-> <<>>, result |-> 0, before |-> <<>>]

\* every goroutine handed the first child
NewUnitOnFirstChild(root) ==
    [pc |-> "check", i |-> 0, n |-> 0, batches |-> 0,
     root |-> IF root = <<>> THEN root ELSE <<1>>]

NewUnit(root) == [pc |-> "check", i |-> 0, n |-> 0, batches |-> 0, root |-> root]

NoAccess == [rd |-> {}, wr |-> {}]

\* the nodes whose fields a call of iterate on the node at root reads: the
\* nodes it is called on and, where it gets past the terminal tests, their
\* children (selectNode reads n and w of each)
ReadBy(nodes, root, path) ==
    LET called == {root} \cup {path[i] : i \in 1..Len(path)}
    IN  called \cup UNION {{Append(q, i) : i \in 1..nodes[q].kids} : q \in called}

\* the nodes that are new in `after` or differ from what they were in `before`
WrittenBetween(before, after) ==
    {q \in DOMAIN after : q \notin DOMAIN before \/ after[q] # before[q]}

MctsInit ==
    /\ NoSearch
    /\ gVariant \in {"single", "parallel"}
    /\ gGame \in IF gVariant = "single"
                 THEN Games(SingleWidths, {Kings})
                 ELSE Games(ParallelWidths, TreeBoards)
    /\ gAgent = gGame[RootId].turn
    /\ mDuration \in Durations
    /\ mNodes = <<>> /\ mUnits = <<>> /\ mPc = "start"
    /\ mRecv = 0 /\ mResult = NoMove /\ mLast = NoLast /\ mAcc = <<>>
    /\ rPos = "" /\ rI = 0 /\ rPc = "idle" /\ rResult = 0
    /\ NoMain /\ NoAttacks

\* single-tree GetMove up to its loop
SingleStart ==
    /\ mPc = "start" /\ gVariant = "single"
    /\ mNodes' = SingleParentNode
    /\ mUnits' = (0 :> NewUnit(<<>>))
    /\ mAcc' = (0 :> NoAccess)
    /\ mPc' = "run"
    /\ UNCHANGED <<mDuration, mRecv, mResult, mLast, searchVars, gameVars, mainVars, attackVars, rolloutVars>>

\* parallel-root GetMove up to its first receive
ParallelStart ==
    /\ mPc = "start" /\ gVariant = "parallel"
    /\ mNodes' = makeParentNode
    /\ mUnits' = [u \in 1..makeParentNode[<<>>].kids |-> NewUnit(<<u>>)]
    /\ mAcc' = [u \in 1..makeParentNode[<<>>].kids |-> NoAccess]
    /\ mPc' = "wait"
    /\ UNCHANGED <<mDuration, mRecv, mResult, mLast, searchVars, gameVars, mainVars, attackVars, rolloutVars>>

RECURSIVE Batches(_)
\* the batches the units S have begun
Batches(S) ==
    IF S = {} THEN 0
    ELSE LET u == CHOOSE x \in S : TRUE
         IN  mUnits[u].batches + Batches(S \ {u})

\* the time check succeeds: a batch begins
TimeCheckEnter(u) ==
    /\ mPc \in {"run", "wait"}
    /\ mUnits[u].pc = "check"
    /\ mDuration >= 1
    /\ mUnits[u].batches = 0 \/ Batches(DOMAIN mUnits) < MaxBatches
    /\ mUnits' = [mUnits EXCEPT ![u].pc = "batch", ![u].i = 0, ![u].batches = @ + 1]
    /\ UNCHANGED <<mDuration, mNodes, mPc, mRecv, mResult, mLast, mAcc,
                   searchVars, gameVars, mainVars, attackVars, rolloutVars>>

\* the time check fails: the loop is left
TimeCheckExit(u) ==
    /\ mPc \in {"run", "wait"}
    /\ mUnits[u].pc = "check"
    /\ mDuration = 0 \/ mUnits[u].batches >= 1
    /\ mUnits' = [mUnits EXCEPT ![u].pc = IF gVariant = "single" THEN "exit" ELSE "send"]
    /\ UNCHANGED <<mDuration, mNodes, mPc, mRecv, mResult, mLast, mAcc,
                   searchVars, gameVars, mainVars, attackVars, rolloutVars>>

\* one pass of the inner loop: iterate and mcts.n++, and in concurrentIterate
\* n.w += result and n.n++ on the unit's root.  Go does not order the read of
\* n.w in `n.w += mcts.iterate(n, agentColor)` with the call, which writes n.w
\* when n is a checkmate: w0 is the value read.
Iterate(u) ==
    /\ mPc \in {"run", "wait"}
    /\ mUnits[u].pc = "batch"
    /\ LET root == mUnits[u].root
           last == mUnits[u].i + 1 = BatchSize
       IN  \E o \in iterate(mNodes, root, mUnits[u].n) :
             /\ IF gVariant = "parallel"
                THEN \E w0 \in {mNodes[root].w, o.nodes[root].w} :
                        mNodes' = [o.nodes EXCEPT ![root].w = w0 + o.result,
                                                  ![root].n = @ + 1]
                ELSE mNodes' = o.nodes
             /\ mLast' = [valid |-> TRUE, unit |-> u, result |-> o.result,
                          path |-> IF gVariant = "parallel"
                                   THEN <<root>> \o o.path ELSE o.path,
                          before |-> mNodes]
             /\ mAcc' = [mAcc EXCEPT
                            ![u].rd = @ \cup ReadBy(o.nodes, root, o.path),
                            ![u].wr = @ \cup WrittenBetween(mNodes, mNodes')]
             /\ mUnits' = [mUnits EXCEPT ![u].n = @ + 1,
                                         ![u].i = IF last THEN 0 ELSE @ + 1,
                                         ![u].pc = IF last THEN "check" ELSE "batch"]
    /\ UNCHANGED <<mDuration, mPc, mRecv, mResult, searchVars, gameVars, mainVars, attackVars, rolloutVars>>

\* GetMove receiving from the channels after the first only
HandoffAfterFirst(u) ==
    /\ mPc = "wait"
    /\ mUnits[u].pc = "send"
    /\ mRecv = u - 2
    /\ mRecv' = u - 1
    /\ mUnits' = [mUnits EXCEPT ![u].pc = "exit"]
    /\ UNCHANGED <<mDuration, mNodes, mPc, mResult, mLast, mAcc,
                   searchVars, gameVars, mainVars, attackVars, rolloutVars>>

\* signalDone <- struct{}{} of unit u meets <-ch of GetMove, which receives
\* from the channels in the order of the children
Handoff(u) ==
    /\ mPc = "wait"
    /\ mUnits[u].pc = "send"
    /\ mRecv = u - 1
    /\ mRecv' = u
    /\ mUnits' = [mUnits EXCEPT ![u].pc = "exit"]
    /\ UNCHANGED <<mDuration, mNodes, mPc, mResult, mLast, mAcc,
                   searchVars, gameVars, mainVars, attackVars, rolloutVars>>

\* return bestMove(parentNode)
Finish ==
    /\ \/ mPc = "run" /\ mUnits[0].pc = "exit"
       \/ mPc = "wait" /\ mRecv = Len(mUnits)
    /\ mResult' = bestMove(mNodes)
    /\ mPc' = "done"
    /\ UNCHANGED <<mDuration, mNodes, mUnits, mRecv, mLast, mAcc,
                   searchVars, gameVars, mainVars, attackVars, rolloutVars>>

MctsNext ==
    \/ SingleStart
    \/ ParallelStart
    \/ \E u \in DOMAIN mUnits : TimeCheckEnter(u)
    \/ \E u \in DOMAIN mUnits : TimeCheckExit(u)
    \/ \E u \in DOMAIN mUnits : Iterate(u)
    \/ \E u \in DOMAIN mUnits : Handoff(u)
    \/ Finish

SpecMcts == MctsInit /\ [][MctsNext]_vars

\* the units of the parallel-root variant: one per root child
UnitIds == ParallelWidths

\* the steps of the parallel-root GetMove and of its goroutines
FairNext ==
    \/ ParallelStart
    \/ \E u \in DOMAIN mUnits : TimeCheckEnter(u)
    \/ \E u \in DOMAIN mUnits : TimeCheckExit(u)
    \/ \E u \in DOMAIN mUnits : Iterate(u)
    \/ \E u \in DOMAIN mUnits : Handoff(u)
    \/ Finish

\* GetMove and every goroutine that can take a step eventually takes one
MctsFairness ==
    /\ WF_vars(ParallelStart) /\ WF_vars(Finish)
    /\ \A u \in UnitIds :
          /\ WF_vars(u \in DOMAIN mUnits /\ TimeCheckEnter(u))
          /\ WF_vars(u \in DOMAIN mUnits /\ TimeCheckExit(u))
          /\ WF_vars(u \in DOMAIN mUnits /\ Iterate(u))
          /\ WF_vars(u \in DOMAIN mUnits /\ Handoff(u))

\* the parallel-root GetMove on the games in which Black has one legal move
FairInit ==
    /\ MctsInit
    /\ gVariant = "parallel"
    /\ Len(gGame["PB"].kids) = 1

SpecMctsFair == FairInit /\ [][FairNext]_vars /\ MctsFairness

(***************************************************************************)
(* randomRollout step by step, from PW, for either agent colour.           *)
(***************************************************************************)
RolloutInit ==
    /\ NoSearch
    /\ gVariant \in {"single", "parallel"}
    /\ gGame \in Games(RolloutWidths, IF gVariant = "parallel" THEN Boards ELSE {Kings})
    /\ gAgent \in {White, Black}
    /\ mDuration = 0 /\ mNodes = <<>> /\ mUnits = <<>> /\ mPc = "idle"
    /\ mRecv = 0 /\ mResult = NoMove /\ mLast = NoLast /\ mAcc = <<>>
    /\ rPos = RootId /\ rI = 0 /\ rPc = "loop" /\ rResult = 0
    /\ NoMain /\ NoAttacks

\* the loop body returns on a checkmate
RolloutMate ==
    /\ rPc = "loop" /\ rI < randomRolloutLength
    /\ IsCheckMate(gGame[rPos])
    /\ rResult' = IF gGame[rPos].turn # gAgent THEN Win ELSE Loss
    /\ rPc' = "done"
    /\ UNCHANGED <<rPos, rI, searchVars, gameVars, mainVars, attackVars, mctsVars>>

\* the loop body returns 0.5 without legal moves
RolloutNoMoves ==
    /\ rPc = "loop" /\ rI < randomRolloutLength
    /\ ~IsCheckMate(gGame[rPos])
    /\ Len(GenerateLegalMoves(gGame[rPos])) = 0
    /\ rResult' = Draw
    /\ rPc' = "done"
    /\ UNCHANGED <<rPos, rI, searchVars, gameVars, mainVars, attackVars, mctsVars>>

\* the loop body plays legalMoves[rand.IntN(len(legalMoves))]
RolloutMove ==
    /\ rPc = "loop" /\ rI < randomRolloutLength
    /\ ~IsCheckMate(gGame[rPos])
    /\ \E m \in 1..Len(GenerateLegalMoves(gGame[rPos])) :
          rPos' = PositionMove(rPos, <<rPos, GenerateLegalMoves(gGame[rPos])[m]>>)
    /\ rI' = rI + 1
    /\ UNCHANGED <<rPc, rResult, searchVars, gameVars, mainVars, attackVars, mctsVars>>

\* the loop ends at the ply cap
RolloutCap ==
    /\ rPc = "loop" /\ rI >= randomRolloutLength
    /\ rResult' = CapReward(gGame[rPos], gAgent)
    /\ rPc' = "done"
    /\ UNCHANGED <<rPos, rI, searchVars, gameVars, mainVars, attackVars, mctsVars>>

RolloutNext == RolloutMate \/ RolloutNoMoves \/ RolloutMove \/ RolloutCap

SpecRollout == RolloutInit /\ [][RolloutNext]_vars

(***************************************************************************)
(* The harness, src/main.go: parseArgs, then the game loop, in which the   *)
(* agent of the side to move is asked for a move.  GetMove has a value     *)
(* receiver and takes the position by value: cAgent and cPos are the       *)
(* callee's copies.  A board is numbered by the moves made on it.  What a  *)
(* searcher does inside GetMove is reduced to what it assigns to: the      *)
(* Turn of the position handed to evaluate, and mcts.n.                    *)
(***************************************************************************)
AgentNames == {"human", "mcts", "minmax", "ab"}

\* the values -p1 and -p2 are given
ArgNames == AgentNames \cup {"x"}

\* the values -o1 and -o2 are given
ArgOptions == {1, 2}

\* the moves a game is followed for
MaxMoves == 2

\* the evaluations or iterations one GetMove is followed for
MaxCalleeSteps == 2

\* Human{}, mcts.Mcts{Duration: o}, minmax.Minmax{Depth: o}, alphabeta.AlphaBeta{Depth: o}
NewAgent(name, option) ==
    [kind |-> name, option |-> IF name = "human" THEN 0 ELSE option, n |-> 0]

\* chess.NewGame()
NewGame == [board |-> 0, turn |-> White, mate |-> FALSE, draw |-> FALSE]

\* the argument of os.Exit for each way main ends
ExitCode(outcome) ==
    CASE outcome = "checkmate" -> 0
      [] outcome = "draw" -> 1
      [] outcome = "invalid move" -> 1
      [] outcome = "invalid configuration" -> 1
      [] outcome = "help" -> 0

Exit(outcome) == [outcome |-> outcome, code |-> ExitCode(outcome)]

\* p.Turn is left as numPseudoLegalChecks last set it
KeepTurn(p, origTurn) == p

\* p.Turn = origTurn
RestoreTurn(p, origTurn) == [p EXCEPT !.turn = origTurn]

MainInit ==
    /\ NoSearch /\ NoMcts /\ NoAttacks
    /\ hArgs \in [p1 : ArgNames, p2 : ArgNames, o1 : ArgOptions, o2 : ArgOptions,
                  help : BOOLEAN]
    /\ hAgents = <<>> /\ hGame = NewGame /\ hPc = "args"
    /\ hExit = NoExit /\ hMove = ""
    /\ cAgent = <<>> /\ cPos = <<>> /\ cPc = "idle" /\ cEval = <<>> /\ cCount = 0

\* parseArgs
ParseArgs ==
    /\ hPc = "args"
    /\ IF hArgs.help
       THEN hExit' = Exit("help") /\ hPc' = "exited" /\ UNCHANGED hAgents
       ELSE IF hArgs.p1 \notin AgentNames \/ hArgs.p2 \notin AgentNames
       THEN hExit' = Exit("invalid configuration") /\ hPc' = "exited" /\ UNCHANGED hAgents
       ELSE /\ hAgents' = <<NewAgent(hArgs.p1, hArgs.o1), NewAgent(hArgs.p2, hArgs.o2)>>
            /\ hPc' = "loop"
            /\ UNCHANGED hExit
    /\ UNCHANGED <<hArgs, hGame, hMove, cAgent, cPos, cPc, cEval, cCount,
                   searchVars, gameVars, mctsVars, rolloutVars, attackVars>>

\* move = agents[i].GetMove(*game.Position()): the call copies the agent and
\* the position
CallGetMove ==
    /\ hPc = "loop"
    /\ ~hGame.mate /\ ~hGame.draw
    /\ cAgent' = hAgents[IF hGame.turn = White THEN 1 ELSE 2]
    /\ cPos' = [board |-> hGame.board, turn |-> hGame.turn]
    /\ cPc' = "run" /\ cCount' = 0
    /\ hPc' = "call"
    /\ UNCHANGED <<hArgs, hAgents, hGame, hExit, hMove, cEval,
                   searchVars, gameVars, mctsVars, rolloutVars, attackVars>>

\* evaluate(&newPos) of Minimax and of Alpha-Beta, newPos being a position
\* of the search with either side to move.  Alpha-Beta's evaluate calls
\* numPseudoLegalChecks, which saves p.Turn and sets it to White; Minimax's
\* evaluate hands copies to simulateAttacks and assigns nothing in *p.
EvaluateEnter ==
    /\ hPc = "call" /\ cPc = "run"
    /\ cAgent.kind \in {"minmax", "ab"}
    /\ cCount < MaxCalleeSteps
    /\ \E t \in {White, Black} :
          LET newPos == [board |-> cPos.board + 1, turn |-> t]
          IN  IF cAgent.kind = "ab"
              THEN /\ cEval' = [p |-> [newPos EXCEPT !.turn = White],
                                origTurn |-> newPos.turn, before |-> newPos]
                   /\ cPc' = "white"
              ELSE /\ cEval' = [p |-> newPos, origTurn |-> newPos.turn, before |-> newPos]
                   /\ cPc' = "evaluated"
    /\ UNCHANGED <<hArgs, hAgents, hGame, hPc, hExit, hMove, cAgent, cPos, cCount,
                   searchVars, gameVars, mctsVars, rolloutVars, attackVars>>

\* numPseudoLegalChecks: p.Turn = chess.Black
ChecksOfBlack ==
    /\ hPc = "call" /\ cPc = "white"
    /\ cEval' = [cEval EXCEPT !.p.turn = Black]
    /\ cPc' = "black"
    /\ UNCHANGED <<hArgs, hAgents, hGame, hPc, hExit, hMove, cAgent, cPos, cCount,
                   searchVars, gameVars, mctsVars, rolloutVars, attackVars>>

\* numPseudoLegalChecks: p.Turn = origTurn; return total
ChecksReturn ==
    /\ hPc = "call" /\ cPc = "black"
    /\ cEval' = [cEval EXCEPT !.p = RestoreTurn(cEval.p, cEval.origTurn)]
    /\ cPc' = "evaluated"
    /\ UNCHANGED <<hArgs, hAgents, hGame, hPc, hExit, hMove, cAgent, cPos, cCount,
                   searchVars, gameVars, mctsVars, rolloutVars, attackVars>>

\* evaluate returns to the search
EvaluateReturn ==
    /\ hPc = "call" /\ cPc = "evaluated"
    /\ cPc' = "run"
    /\ cCount' = cCount + 1
    /\ UNCHANGED <<hArgs, hAgents, hGame, hPc, hExit, hMove, cAgent, cPos, cEval,
                   searchVars, gameVars, mctsVars, rolloutVars, attackVars>>

\* the single-tree GetMove: mcts.iterate(parentNode, p.Turn); mcts.n++
MctsCount ==
    /\ hPc = "call" /\ cPc = "run"
    /\ cAgent.kind = "mcts"
    /\ cCount < MaxCalleeSteps
    /\ cAgent' = [cAgent EXCEPT !.n = @ + 1]
    /\ cCount' = cCount + 1
    /\ UNCHANGED <<hArgs, hAgents, hGame, hPc, hExit, hMove, cPos, cPc, cEval,
                   searchVars, gameVars, mctsVars, rolloutVars, attackVars>>

\* GetMove returns a move, which game.Move will accept or not.  The deferred
\* mcts.resetN() has a value receiver: it clears n in a copy of its own.
GetMoveReturn ==
    /\ hPc = "call" /\ cPc = "run"
    /\ hMove' \in {"valid", "invalid"}
    /\ hPc' = "returned"
    /\ cPc' = "idle"
    /\ UNCHANGED <<hArgs, hAgents, hGame, hExit, cAgent, cPos, cEval, cCount,
                   searchVars, gameVars, mctsVars, rolloutVars, attackVars>>

\* if game.Move(move) != nil { os.Exit(1) }; otherwise the move is made, and
\* the position it leads to is a checkmate, a claimable draw, both or neither
GameMove ==
    /\ hPc = "returned"
    /\ IF hMove = "invalid"
       THEN hExit' = Exit("invalid move") /\ hPc' = "exited" /\ UNCHANGED hGame
       ELSE /\ \E mate \in BOOLEAN : \E draw \in BOOLEAN :
                  /\ hGame.board + 1 >= MaxMoves => mate \/ draw
                  /\ hGame' = [board |-> hGame.board + 1, turn |-> Other(hGame.turn),
                               mate |-> mate, draw |-> draw]
            /\ hPc' = "loop"
            /\ UNCHANGED hExit
    /\ UNCHANGED <<hArgs, hAgents, hMove, cAgent, cPos, cPc, cEval, cCount,
                   searchVars, gameVars, mctsVars, rolloutVars, attackVars>>

\* if game.IsCheckMate() { ...; os.Exit(0) }
EndCheckmate ==
    /\ hPc = "loop"
    /\ hGame.mate
    /\ hExit' = Exit("checkmate")
    /\ hPc' = "exited"
    /\ UNCHANGED <<hArgs, hAgents, hGame, hMove, cAgent, cPos, cPc, cEval, cCount,
                   searchVars, gameVars, mctsVars, rolloutVars, attackVars>>

\* if game.CanClaimDraw() { ...; os.Exit(1) }
EndDraw ==
    /\ hPc = "loop"
    /\ ~hGame.mate /\ hGame.draw
    /\ hExit' = Exit("draw")
    /\ hPc' = "exited"
    /\ UNCHANGED <<hArgs, hAgents, hGame, hMove, cAgent, cPos, cPc, cEval, cCount,
                   searchVars, gameVars, mctsVars, rolloutVars, attackVars>>

MainNext ==
    \/ ParseArgs
    \/ CallGetMove
    \/ EvaluateEnter
    \/ ChecksOfBlack
    \/ ChecksReturn
    \/ EvaluateReturn
    \/ MctsCount
    \/ GetMoveReturn
    \/ GameMove
    \/ EndCheckmate
    \/ EndDraw

SpecMain == MainInit /\ [][MainNext]_vars

(***************************************************************************)
(* simulateAttacks of Minimax's evaluate, src/minmax/minmax.go:155-186, on *)
(* one square.  Of a position it looks at the side to move, at the legal   *)
(* moves that land on the square and at the pieces that make them; the     *)
(* move it picks puts its piece on the square.  A position is therefore    *)
(* the side to move, the piece on the square, and for each colour the      *)
(* pieces with a legal move onto the square, in generation order.  Piece   *)
(* values are in tenths.                                                   *)
(***************************************************************************)
NoPiece == Piece("NoPiece", "NoColor")

\* the piece types that attack the square
AttackTypes == {"Pawn", "Knight", "Queen"}

\* the most pieces of one colour that attack the square
MaxAttackers == 2

AttackerSeqs(c) ==
    UNION {[1..n -> {Piece(t, c) : t \in AttackTypes}] : n \in 0..MaxAttackers}

AttackPositions ==
    [turn : {White, Black},
     square : {NoPiece} \cup {Piece(t, c) : t \in AttackTypes, c \in {White, Black}},
     white : AttackerSeqs(White),
     black : AttackerSeqs(Black)]

\* getPieceValue of minmax.go: the value of the piece, negative for a piece
\* that is not White
getPieceValue(piece) ==
    LET val == CASE piece.type = "Pawn" -> 10
                 [] piece.type = "Rook" -> 50
                 [] piece.type = "Knight" -> 29
                 [] piece.type = "Bishop" -> 30
                 [] piece.type = "Queen" -> 80
                 [] piece.type = "King" -> 100000
                 [] OTHER -> 0
    IN  IF piece.color = White THEN val ELSE -val

RECURSIVE SumPieces(_, _)
SumPieces(pieces, i) ==
    IF i > Len(pieces) THEN 0 ELSE getPieceValue(pieces[i]) + SumPieces(pieces, i + 1)

\* sumMaterial: the sum of getPieceValue over the board
sumMaterial(p) == SumPieces(<<p.square>> \o p.white \o p.black, 1)

\* the pieces of the legal moves with move.ToSquare == square, in generation
\* order: no piece moves onto a piece of its own colour
MovesOnto(p) ==
    IF p.square.color = p.turn THEN <<>>
    ELSE IF p.turn = White THEN p.white ELSE p.black

RECURSIVE lowestCostLoop(_, _, _, _)
\* the loop of simulateAttacks from the i-th move onto the square on
lowestCostLoop(p, i, lowestCost, lowestCostMove) ==
    IF i > Len(MovesOnto(p))
    THEN [cost |-> lowestCost, move |-> lowestCostMove]
    ELSE LET cost == getPieceValue(MovesOnto(p)[i])
         IN  IF \/ p.turn = White /\ cost < lowestCost
                \/ p.turn = Black /\ cost > lowestCost
             THEN lowestCostLoop(p, i + 1, cost, i)
             ELSE lowestCostLoop(p, i + 1, lowestCost, lowestCostMove)

\* lowestCost and lowestCostMove after the loop
lowestCostOf(p) ==
    lowestCostLoop(p, 1, IF p.turn = Black THEN -MaxFloat64 ELSE MaxFloat64, NullMove)

Without(pieces, i) == SubSeq(pieces, 1, i - 1) \o SubSeq(pieces, i + 1, Len(pieces))

\* p.Move(lowestCostMove): the piece of the i-th move onto the square takes
\* the square
MoveOnto(p, i) ==
    [turn   |-> Other(p.turn),
     square |-> MovesOnto(p)[i],
     white  |-> IF p.turn = White THEN Without(p.white, i) ELSE p.white,
     black  |-> IF p.turn = Black THEN Without(p.black, i) ELSE p.black]

RECURSIVE simulateAttacks(_)
simulateAttacks(p) ==
    LET l == lowestCostOf(p)
    IN  IF l.move = NullMove THEN 0
        ELSE simulateAttacks(MoveOnto(p, l.move)) - l.cost

AttackInit ==
    /\ NoSearch /\ NoMcts /\ NoMain
    /\ aPos \in AttackPositions
    /\ aPc = "call"
    /\ aTotal = 0
    /\ aDelta = 0

\* one call of simulateAttacks that finds a move: p.Move(lowestCostMove), and
\* lowestCost is subtracted from what the recursive call returns
AttackMove ==
    /\ aPc = "call"
    /\ lowestCostOf(aPos).move # NullMove
    /\ aPos' = MoveOnto(aPos, lowestCostOf(aPos).move)
    /\ aTotal' = aTotal - lowestCostOf(aPos).cost
    /\ aDelta' = aDelta + (sumMaterial(aPos') - sumMaterial(aPos))
    /\ UNCHANGED <<aPc, searchVars, gameVars, mctsVars, rolloutVars, mainVars>>

\* the call that finds no move returns 0
AttackReturn ==
    /\ aPc = "call"
    /\ lowestCostOf(aPos).move = NullMove
    /\ aPc' = "done"
    /\ UNCHANGED <<aPos, aTotal, aDelta, searchVars, gameVars, mctsVars, rolloutVars, mainVars>>

AttackNext == AttackMove \/ AttackReturn

SpecAttacks == AttackInit /\ [][AttackNext]_vars

(***************************************************************************)
(* Claims about Minimax and Alpha-Beta.                                    *)
(***************************************************************************)
MateMoves(p) == {i \in 1..Len(p.kids) : IsCheckMate(p.kids[i])}

StaleMoves(p) == {i \in 1..Len(p.kids) : IsStaleMate(p.kids[i])}

\* the sentinel score of a mate delivered by the side to move in p
MateScore(p) == IF p.turn = White THEN MaxFloat64 ELSE -MaxFloat64

\* the score the search gives the i-th move of p, seen from the side to move in p:
\* positive is good for that side
MoveScoreFor(p, depth, i) ==
    LET c == p.kids[i]
        s == IF IsCheckMate(c) THEN MateScore(p) ELSE MinmaxSearch(c, depth - 1).score
    IN  IF p.turn = White THEN s ELSE -s

\* C1: when both agents have answered, Alpha-Beta started with the window
\* (-MaxFloat64, +MaxFloat64) returned the score Minimax returned, for every
\* position and depth.
C1_AlphaBetaScoreEqualsMinimax ==
    sPc = "done" => abResult.score = mmResult.score

\* C2 (Minimax and Alpha-Beta): the move GetMove returns is one of the legal
\* moves of the position, never the null move; with one legal move it is that move.
C2_GetMoveReturnsLegalMove ==
    /\ sPc # "start" => mmResult.move \in 1..Len(sPos.kids)
    /\ sPc = "done" => abResult.move \in 1..Len(sPos.kids)

\* C3: at depth >= 1, with a stalemating move and another move whose searched
\* score favours the side to move, neither agent returns a stalemating move,
\* in whatever order the moves are generated; when every other move scores worse
\* than 0 for the side to move, the stalemating move is returned.
C3_StalemateAvoidance ==
    (sPc = "done" /\ sDepth >= 1 /\ StaleMoves(sPos) # {}) =>
        LET others == (1..Len(sPos.kids)) \ StaleMoves(sPos)
        IN  /\ (\E j \in others : MoveScoreFor(sPos, sDepth, j) > 0) =>
                    /\ mmResult.move \notin StaleMoves(sPos)
                    /\ abResult.move \notin StaleMoves(sPos)
            /\ (\A j \in others : MoveScoreFor(sPos, sDepth, j) < 0) =>
                    /\ mmResult.move \in StaleMoves(sPos)
                    /\ abResult.move \in StaleMoves(sPos)

\* C4: at depth >= 1, on a position with a move that mates at once, search of
\* either agent returns a mating move with the sentinel score of the side to
\* move (+MaxFloat64 for White, -MaxFloat64 for Black), however many non-mating
\* moves are generated before it.
C4_MateInOneFound ==
    (sDepth >= 1 /\ MateMoves(sPos) # {}) =>
        /\ sPc # "start" =>
              mmResult.move \in MateMoves(sPos) /\ mmResult.score = MateScore(sPos)
        /\ sPc = "done" =>
              abResult.move \in MateMoves(sPos) /\ abResult.score = MateScore(sPos)

\* C4's case: White to move at depth 1, two non-mating moves are generated
\* before the mating one (a move answered by a position evaluated 1, then a
\* stalemating move, which the search scores +MaxFloat64), and both agents
\* return the third move with +MaxFloat64.
C4_Witness ==
    /\ sPc = "done" /\ sDepth = 1 /\ sPos.turn = White
    /\ Len(sPos.kids) = 3
    /\ sPos.kids[1].kind = "play" /\ MinmaxSearch(sPos.kids[1], 0).score = 1
    /\ sPos.kids[2].kind = "stale" /\ sPos.kids[3].kind = "mate"
    /\ mmResult = Ret(3, MaxFloat64) /\ abResult = Ret(3, MaxFloat64)

(***************************************************************************)
(* Claims about the MCTS agents.                                           *)
(***************************************************************************)
TreeBuilt == mPc \in {"run", "wait", "done"}

RECURSIVE VisitsFrom(_, _)
\* the sum of n over the children i, i + 1, ... of the root
VisitsFrom(nodes, i) ==
    IF i > nodes[<<>>].kids THEN 0
    ELSE nodes[<<i>>].n + VisitsFrom(nodes, i + 1)

Parent(q) == SubSeq(q, 1, Len(q) - 1)

\* the node at which the selection path of the last iteration ended
LastEnd == mLast.path[Len(mLast.path)]

\* C5: in the single-tree variant, after any number k of completed iterations,
\* the visit counters n of the root's children add up to k, also when a root
\* child is a checkmate or a stalemate.
C5_RootVisitsEqualIterations ==
    (gVariant = "single" /\ TreeBuilt) => VisitsFrom(mNodes, 1) = mUnits[0].n

\* C6: one iteration adds exactly 1 to n and exactly its result to w of every
\* node on its selection path below the tree root, leaves n and w of every other
\* node as they were, and never increments n of the tree root; also when the
\* path ends at a checkmate or stalemate node.
C6_IterationFrame ==
    mLast.valid =>
        LET onPath == {mLast.path[i] : i \in 1..Len(mLast.path)}
        IN  /\ \A q \in DOMAIN mNodes :
                  LET old == IF q \in DOMAIN mLast.before
                             THEN mLast.before[q] ELSE NewNode(NoMove, <<>>, 0)
                  IN  IF q \in onPath
                      THEN /\ mNodes[q].n = old.n + 1
                           /\ mNodes[q].w = old.w + mLast.result
                      ELSE /\ mNodes[q].n = old.n
                           /\ mNodes[q].w = old.w
            /\ mNodes[<<>>].n = 0

\* C7: in both variants every node below the root holds its parent's position
\* with its own move applied, and the root holds the position GetMove was given:
\* creating the children changes the position of no other node.
C7_NodeHoldsParentPositionPlusMove ==
    TreeBuilt =>
        /\ mNodes[<<>>].pos = <<>>
        /\ \A q \in DOMAIN mNodes \ {<<>>} :
              mNodes[q].pos = Append(mNodes[Parent(q)].pos, mNodes[q].mov)

\* C8: when the selection path of an iteration ends at a node whose position is
\* a checkmate with the agent's opponent to move, the result is 1; when it ends
\* at a checkmate with the agent to move or at a stalemate, the result is 0; on
\* every visit of such a node, the first included.
C8_TerminalNodeResult ==
    (mLast.valid /\ Len(mLast.path) > 0) =>
        LET p == PosOf(mNodes[LastEnd].pos)
        IN  /\ (IsCheckMate(p) /\ p.turn # gAgent) => mLast.result = Win
            /\ ((IsCheckMate(p) /\ p.turn = gAgent) \/ IsStaleMate(p)) =>
                   mLast.result = Loss

\* the rollout of Variant A ended at the ply cap, on a position that is not terminal
CapReachedA ==
    /\ gVariant = "parallel" /\ rPc = "done" /\ rI = RolloutLengthParallel
    /\ gGame[rPos].kind = "play"

\* the material difference in the agent's favour, in tenths of a pawn
AgentMaterial ==
    IF gAgent = White THEN getPositionValue(gGame[rPos])
    ELSE -getPositionValue(gGame[rPos])

\* C9, as stated: at the cap of Variant A the result is 1 when the material
\* difference in the agent's favour is at least 8, 0 when the difference against
\* the agent is at least 8, and 0.5 otherwise: exactly 8 is decisive.
C9_CapRewardAtLeastEight ==
    CapReachedA =>
        rResult = IF AgentMaterial >= 80 THEN Win
                  ELSE IF AgentMaterial <= -80 THEN Loss
                  ELSE Draw

\* C9, amended: at the cap of Variant A the result is 1 when the material
\* difference in the agent's favour is greater than 8, 0 when the difference
\* against the agent is greater than 8, and 0.5 otherwise: exactly 8 is a draw.
C9_CapRewardAboveEight ==
    CapReachedA =>
        rResult = IF AgentMaterial > 80 THEN Win
                  ELSE IF AgentMaterial < -80 THEN Loss
                  ELSE Draw

\* C9's case: the cap is reached with the agent exactly a queen up, and the
\* rollout returned 0.5
C9_Witness ==
    CapReachedA /\ AgentMaterial = 80 /\ rResult = Draw

\* C10: at the final move selection of either variant, once an iteration has
\* completed, every child of the root has n > 0.
C10_RootChildrenVisited ==
    (mPc = "done" /\ \E u \in DOMAIN mUnits : mUnits[u].n >= 1) =>
        \A i \in 1..mNodes[<<>>].kids : mNodes[<<i>>].n > 0

\* C11, on states: in the parallel-root variant no node (with the position
\* snapshot it holds) that one unit has written was read or written by another
\* unit, and GetMove has selected (read n and w of the root's children) only
\* with every unit past its send.  Each unit's iteration counter is its own
\* mUnits[u].n.
C11_UnitsDisjoint ==
    gVariant = "parallel" =>
        /\ \A u \in DOMAIN mAcc : \A v \in DOMAIN mAcc \ {u} :
              mAcc[u].wr \cap (mAcc[v].rd \cup mAcc[v].wr) = {}
        /\ mPc = "done" => \A u \in DOMAIN mUnits : mUnits[u].pc = "exit"

\* C11, on steps: no node a unit has written, and not the root child it owns,
\* changes once the unit has left its loop.
C11_NoWriteAfterLoop ==
    \A u \in DOMAIN mUnits :
        (gVariant = "parallel" /\ mUnits[u].pc \in {"send", "exit"}) =>
            \A q \in mAcc[u].wr \cup {<<u>>} : mNodes'[q] = mNodes[q]

\* C11: in the parallel-root variant, under every interleaving, nothing one
\* unit writes is read or written by another unit, and GetMove reads n and w of
\* a root child only after the unit that owns it has written for the last time
\* and has signalled completion.
C11_NoSharedState == []C11_UnitsDisjoint /\ [][C11_NoWriteAfterLoop]_vars

\* C11's case: GetMove has returned after two units each grew and wrote their
\* own subtree
C11_Witness ==
    /\ gVariant = "parallel" /\ mPc = "done" /\ Len(mUnits) = 2
    /\ \A u \in DOMAIN mAcc : \E q \in mAcc[u].wr : Len(q) = 2 /\ q[1] = u

\* C12: in the parallel-root variant, with loops that end, every unit that
\* has reached its send is eventually received from, and GetMove eventually
\* returns, for every number of root children and every order in which the
\* units finish.
C12_NoDeadlock ==
    /\ \A u \in UnitIds :
          (gVariant = "parallel" /\ u \in DOMAIN mUnits /\ mUnits[u].pc = "send")
              ~> (u \in DOMAIN mUnits /\ mUnits[u].pc = "exit")
    /\ (gVariant = "parallel") ~> (mPc = "done")

\* C12's case: the second unit blocks on its send while the first is still
\* iterating and GetMove waits for the first
C12_Witness ==
    /\ gVariant = "parallel" /\ mPc = "wait" /\ mRecv = 0 /\ Len(mUnits) = 2
    /\ mUnits[1].pc = "batch" /\ mUnits[2].pc = "send"

\* the visits of node c before the last iteration; a node generated by the
\* iteration had none
VisitsBefore(c) == IF c \in DOMAIN mLast.before THEN mLast.before[c].n ELSE 0

\* mcts.n during the last iteration
LastN == mUnits[mLast.unit].n - 1

\* the nodes selectNode returned during the last iteration
Selections ==
    {mLast.path[k] : k \in (IF gVariant = "parallel" THEN 2 ELSE 1)..Len(mLast.path)}

Siblings(s) == {Append(Parent(s), i) : i \in 1..mNodes[Parent(s)].kids}

Index(s) == s[Len(s)]

UcbBefore(c) == calcUCB(mLast.before[c], LastN)

\* C13: selectNode returns the first child with n = 0 when there is one, and
\* otherwise, all children having n > 0, the first child with the maximal
\* UCB1 value; it never returns a visited child while a sibling is unvisited.
C13_SelectionOrder ==
    mLast.valid =>
        \A s \in Selections :
            LET unvisited == {c \in Siblings(s) : VisitsBefore(c) = 0}
            IN  /\ unvisited # {} =>
                      /\ s \in unvisited
                      /\ \A c \in unvisited : Index(s) <= Index(c)
                /\ unvisited = {} =>
                      /\ \A c \in Siblings(s) : UcbBefore(s) >= UcbBefore(c)
                      /\ \A c \in Siblings(s) :
                            UcbBefore(c) = UcbBefore(s) => Index(s) <= Index(c)

\* C13's case: all children visited, and two of them tied for the maximal UCB1
C13_Witness ==
    /\ mLast.valid
    /\ \E s \in Selections :
          /\ \A c \in Siblings(s) : VisitsBefore(c) > 0
          /\ \E c \in Siblings(s) \ {s} : UcbBefore(c) = UcbBefore(s)

\* C14, on states: w is in halves, so w <= n reads w <= 2 * n
C14_RewardWithinVisits ==
    \A q \in DOMAIN mNodes : 0 <= mNodes[q].w /\ mNodes[q].w <= 2 * mNodes[q].n

\* C14, on steps: no node is lost and no n decreases
C14_VisitsMonotone ==
    \A q \in DOMAIN mNodes : q \in DOMAIN mNodes' /\ mNodes'[q].n >= mNodes[q].n

\* C14: after any sequence of iterations, in both variants, every node has
\* 0 <= w <= n, and the n of a node never decreases.
C14_RewardBounded == []C14_RewardWithinVisits /\ [][C14_VisitsMonotone]_vars

\* C14's case: a node visited more than once whose every visit was a win, and
\* a visited node without any reward
C14_Witness ==
    /\ mLast.valid
    /\ \E q \in DOMAIN mNodes : mNodes[q].n >= 2 /\ mNodes[q].w = 2 * mNodes[q].n
    /\ \E q \in DOMAIN mNodes : mNodes[q].n >= 1 /\ mNodes[q].w = 0

\* C15: every value randomRollout returns, at the ply cap of 20 with the
\* material fallback or at the ply cap of 50, for every agent colour and every
\* sequence of random moves, is one of 0, 0.5 and 1.
C15_RolloutResultDomain ==
    /\ rPc = "done" => rResult \in {Loss, Draw, Win}
    /\ rPc = "loop" /\ rI = 0 => randomRollout(rPos, gAgent) \subseteq {Loss, Draw, Win}

\* C15's case: a rollout of the single-tree variant that ran into its cap of 50
C15_Witness ==
    /\ rPc = "done" /\ gVariant = "single"
    /\ rI = RolloutLengthSingle /\ rResult = Draw

\* the root children
RootChildren == {<<i>> : i \in 1..mNodes[<<>>].kids}

\* the children whose average w/n no other child exceeds
BestAverages ==
    {c \in RootChildren :
        \A d \in RootChildren :
            mNodes[c].w * mNodes[d].n >= mNodes[d].w * mNodes[c].n}

AllRootChildrenVisited ==
    /\ mPc = "done"
    /\ RootChildren # {}
    /\ \A c \in RootChildren : mNodes[c].n > 0

\* C16: when every root child has n > 0, bestMove returns the move of the
\* child with the highest average w/n, and of the first such child when
\* several are tied.
C16_BestMoveIsFirstHighestAverage ==
    AllRootChildrenVisited =>
        \E c \in BestAverages :
            /\ mResult = mNodes[c].mov
            /\ \A d \in BestAverages : c[1] <= d[1]

\* C16's case: two visited root children tied for the highest average
C16_Witness ==
    /\ AllRootChildrenVisited
    /\ \E c \in BestAverages : \E d \in BestAverages : c # d

\* C17: for every position and depth, every position Alpha-Beta evaluates or
\* searches is one Minimax evaluates or searches, and Alpha-Beta visits at
\* most as many positions as Minimax.
C17_AlphaBetaVisitsWithinMinimax ==
    sPc = "done" =>
        /\ ABVisited(sPos, sDepth) \subseteq MinmaxVisited(sPos, sDepth)
        /\ Cardinality(ABVisited(sPos, sDepth)) <= Cardinality(MinmaxVisited(sPos, sDepth))

\* the three kinds of ending the exit code tells apart
ExitClass(outcome) ==
    CASE outcome = "checkmate" -> "checkmate"
      [] outcome = "draw" -> "draw"
      [] outcome \in {"invalid move", "invalid configuration"} -> "failure"
      [] OTHER -> "other"

\* C18: the exit code of a game ended by checkmate, of a game ended by a
\* claimable draw and of a failure (invalid move or invalid configuration)
\* are pairwise distinct: the code the process exits with is not the code of
\* an ending of another kind.
C18_ExitCodesDistinct ==
    (hPc = "exited" /\ ExitClass(hExit.outcome) # "other") =>
        \A o \in {"checkmate", "draw", "invalid move", "invalid configuration"} :
            ExitClass(o) # ExitClass(hExit.outcome) => ExitCode(o) # hExit.code

\* C19, on steps: while GetMove runs and when it returns, the caller's
\* position and agents stay as they were
C19_CallerUnchanged ==
    hPc = "call" => hGame' = hGame /\ hAgents' = hAgents

\* C19, on states: when evaluate returns, the position it was handed is as
\* it was, Turn included
C19_TurnRestored ==
    cPc = "evaluated" => cEval.p = cEval.before

\* C19: GetMove of every searcher leaves the caller's position and the
\* agent's configuration (Depth or Duration, and n) as they were, and the
\* change of Turn in numPseudoLegalChecks is undone before evaluate returns.
C19_GetMoveLeavesCallerState == []C19_TurnRestored /\ [][C19_CallerUnchanged]_vars

\* C19's case: Alpha-Beta's evaluate has returned for a position with Black
\* to move, whose Turn numPseudoLegalChecks had set to White
C19_Witness ==
    /\ hPc = "call" /\ cPc = "evaluated" /\ cAgent.kind = "ab"
    /\ cEval.origTurn = Black /\ cEval.p.turn = Black

\* C20: simulateAttacks returns the sum, over the moves it makes onto the
\* square, of material after the move minus material before it, and 0 when
\* no legal move lands on the square; a move onto an empty square adds 0.
C20_SimulateAttacksSumsMaterialChange ==
    /\ aPc = "done" => aTotal = aDelta
    /\ (aPc = "call" /\ MovesOnto(aPos) = <<>>) => simulateAttacks(aPos) = 0
    /\ (aPc = "call" /\ aTotal = 0 /\ aDelta = 0 /\ aPos.square = NoPiece
           /\ Len(MovesOnto(aPos)) = 1 /\ MovesOnto(MoveOnto(aPos, 1)) = <<>>)
          => simulateAttacks(aPos) = 0

\* the first legal move of p that gives checkmate
FirstMate(p) == CHOOSE i \in MateMoves(p) : \A j \in MateMoves(p) : i <= j

\* none of the positions visited lies at or below the m-th or a later move of
\* the position at path
NothingFrom(visited, path, m) ==
    \A v \in visited :
        ~(/\ Len(v) > Len(path)
          /\ SubSeq(v, 1, Len(path)) = path
          /\ v[Len(path) + 1] >= m)

\* C21, for Minimax: every call at depth >= 1 on a position with mating moves
\* returns the first of them and visits nothing from that move on
MinmaxFirstMate ==
    \A q \in MinmaxCalled(sPos, sDepth) :
        LET p == PosAtPath(sPos, q)
            d == sDepth - Len(q)
        IN  (d >= 1 /\ MateMoves(p) # {}) =>
                /\ MinmaxSearch(p, d).move = FirstMate(p)
                /\ NothingFrom(MinmaxVisited(sPos, sDepth), q, FirstMate(p))

\* the loop of the call c ended at a move before the m-th with a score beyond
\* its window
CutBefore(c, p, m) ==
    LET r == ABSearch(p, c.depth, c.alpha, c.beta)
    IN  /\ r.move \in 1..(m - 1)
        /\ IF p.turn = White THEN r.score > c.beta
                              ELSE r.score < c.alpha

C22_StalemateScoredZeroNotSearched ==
    (sPc = "done" /\ sDepth >= 1) =>
        /\ \A q \in MinmaxCalled(sPos, sDepth) :
              q # <<>> => ~IsStaleMate(PosAtPath(sPos, q))
        /\ \A c \in ABCalled(sPos, sDepth) :
              c.path # <<>> => ~IsStaleMate(PosAtPath(sPos, c.path))
        /\ mmResult.move \in StaleMoves(sPos) => mmResult.score = 0
        /\ abResult.move \in StaleMoves(sPos) => abResult.score = 0

\* the last iteration ended with a rollout: the node selected last had n = 0
RolledOut ==
    /\ mLast.valid
    /\ Len(mLast.path) > (IF gVariant = "parallel" THEN 1 ELSE 0)
    /\ \/ LastEnd \notin DOMAIN mLast.before
       \/ mLast.before[LastEnd].n = 0

\* C23: when an iteration selects a child with n = 0, the result credited to
\* that child is the result of a random rollout that starts from the child's
\* own position, the parent's position with the child's move applied.
C23_RolloutStartsAtChild ==
    RolledOut =>
        /\ mNodes[LastEnd].pos = Append(mNodes[Parent(LastEnd)].pos, mNodes[LastEnd].mov)
        /\ mLast.result \in randomRollout(Moved(RootId, mNodes[LastEnd].pos), gAgent)

\* C24: for Duration >= 0, the budget 0 in which no iteration runs included,
\* GetMove of either MCTS variant on a position with legal moves selects with
\* a root that has at least one child: n.children[0] in bestMove is in range,
\* and the move returned is a legal move of the position.
C24_FinalSelectionHasChild ==
    mPc = "done" =>
        /\ mNodes[<<>>].kids >= 1
        /\ mResult # Panic
        /\ mResult \in {<<RootId, GenerateLegalMoves(gGame[RootId])[i]>> :
                            i \in 1..Len(gGame[RootId].kids)}

====
